---- MODULE Spec2Model ----
(***************************************************************************)
(* Terminal Gobang (gobang.py): board, history, win detection, the         *)
(* heuristic AI and the game loop, as a state machine.  One action is one  *)
(* iteration of game_loop (or one answer to a menu prompt).                *)
(***************************************************************************)
EXTENDS Integers, Sequences, FiniteSets, TLC

\* ---------------------------------------------------------------- constants
BOARD_SIZE == 15
EMPTY == 0
BLACK == 1
WHITE == 2

Idx == 0 .. (BOARD_SIZE - 1)
Cells == Idx \X Idx

\* the repeated guard 0 <= r < BOARD_SIZE and 0 <= c < BOARD_SIZE
InRange(r, c) == 0 <= r /\ r < BOARD_SIZE /\ 0 <= c /\ c < BOARD_SIZE

\* the four axis vectors, in the order of the source
directions == << <<0, 1>>, <<1, 0>>, <<1, 1>>, <<1, -1>> >>

\* [[EMPTY for _ in range(BOARD_SIZE)] for _ in range(BOARD_SIZE)]
EmptyBoard == [r \in Idx |-> [c \in Idx |-> EMPTY]]

\* messages of print_message, as seen after one iteration of the loop
MsgNone == "none"
MsgAiThinking == "ai_thinking"
MsgUndoOk == "undo_ok"
MsgUndoNone == "undo_none"
MsgBadFormat == "bad_format"
MsgOccupied == "occupied_or_out_of_range"

VARIABLES board, history, game_over, current_player, ai_enabled, pc, msg

vars == <<board, history, game_over, current_player, ai_enabled, pc, msg>>

\* ---------------------------------------------------------------- input
\* A coordinate command is <<letter, number>>: letter is ord(letters[0]) -
\* ord('A') (-1 when the text holds no letter), number is int(numbers)
\* (-1 when the text holds no digit).
NoCoord == <<>>

parse_coordinate(inp) ==
    IF inp[1] = -1 \/ inp[2] = -1
    THEN NoCoord
    ELSE LET col == inp[1]
             row == inp[2] - 1
         IN  IF InRange(row, col) THEN <<row, col>> ELSE NoCoord

\* is_valid_move without the test of the cell's content
is_valid_move_range_only(b, row, col) == InRange(row, col)

is_valid_move(b, row, col) ==
    IF ~InRange(row, col) THEN FALSE ELSE b[row][col] = EMPTY

\* ---------------------------------------------------------------- win check
\* while 0 <= r < N and 0 <= c < N and board[r][c] == player: count += 1 ...
RECURSIVE CountRun(_, _, _, _, _, _)
CountRun(b, r, c, dr, dc, player) ==
    IF InRange(r, c) /\ b[r][c] = player
    THEN 1 + CountRun(b, r + dr, c + dc, dr, dc, player)
    ELSE 0

\* win_count without the scan in the reverse direction
win_count_forward_only(b, row, col, player, d) ==
    1 + CountRun(b, row + d[1], col + d[2], d[1], d[2], player)

\* the count check_win reaches on one axis
win_count(b, row, col, player, d) ==
    1 + CountRun(b, row + d[1], col + d[2], d[1], d[2], player)
      + CountRun(b, row - d[1], col - d[2], -d[1], -d[2], player)

check_win(b, row, col, player) ==
    \E i \in 1..4 : win_count(b, row, col, player, directions[i]) >= 5

\* ---------------------------------------------------------------- moves
make_move(b, h, row, col, player) ==
    LET b1 == [b EXCEPT ![row][col] = player]
    IN  [board |-> b1,
         history |-> Append(h, <<row, col, player>>),
         won |-> check_win(b1, row, col, player)]

undo_move(b, h) ==
    IF h # <<>>
    THEN LET e == h[Len(h)]
         IN  [board |-> [b EXCEPT ![e[1]][e[2]] = EMPTY],
              history |-> SubSeq(h, 1, Len(h) - 1),
              ret |-> TRUE]
    ELSE [board |-> b, history |-> h, ret |-> FALSE]

other_player(p) == IF p = BLACK THEN WHITE ELSE BLACK

\* ---------------------------------------------------------------- AI
\* for row in range(N): for col in range(N): the cells in scan order
ScanOrder == [n \in 1..(BOARD_SIZE * BOARD_SIZE) |->
                <<(n - 1) \div BOARD_SIZE, (n - 1) % BOARD_SIZE>>]

\* per axis, the cells passing
\* "if not (0 <= row - dr < N and 0 <= col - dc < N)", in scan order
StartCells ==
    [i \in 1..4 |->
        SelectSeq(ScanOrder,
                  LAMBDA rc : ~InRange(rc[1] - directions[i][1],
                                       rc[2] - directions[i][2]))]

\* the body of the two loops of count_consecutive at the n-th start cell of
\* axis i: the list of (count, open_ends) this iteration appends
scan_cell(b, player, i, n) ==
    LET row == StartCells[i][n][1]
        col == StartCells[i][n][2]
        dr == directions[i][1]
        dc == directions[i][2]
    IN  IF b[row][col] = player
        THEN LET count == 1 + CountRun(b, row + dr, col + dc, dr, dc, player)
                 r == row + count * dr
                 c == col + count * dc
                 open_ends ==
                     (IF InRange(r, c) /\ b[r][c] = EMPTY THEN 1 ELSE 0)
                   + (IF InRange(row - dr, col - dc) /\ b[row - dr][col - dc] = EMPTY
                      THEN 1 ELSE 0)
             IN  IF count >= 2 THEN << <<count, open_ends>> >> ELSE <<>>
        ELSE <<>>

\* the list appended by the iterations lo..hi, in scan order
RECURSIVE scan_from(_, _, _, _, _)
scan_from(b, player, i, lo, hi) ==
    IF lo > hi THEN <<>>
    ELSE IF lo = hi THEN scan_cell(b, player, i, lo)
    ELSE scan_from(b, player, i, lo, (lo + hi) \div 2)
           \o scan_from(b, player, i, (lo + hi) \div 2 + 1, hi)

\* the list count_consecutive(player, dr, dc) returns, axis i
count_consecutive(b, player, i) == scan_from(b, player, i, 1, Len(StartCells[i]))

\* the score table of evaluate_line
pattern_score(count, open_ends) ==
    IF count >= 5 THEN 100000
    ELSE IF count = 4 THEN (IF open_ends = 2 THEN 10000 ELSE 1000)
    ELSE IF count = 3 THEN (IF open_ends = 2 THEN 1000 ELSE 100)
    ELSE IF count = 2 THEN (IF open_ends = 2 THEN 100 ELSE 10)
    ELSE 0

\* line_score of one axis: the table summed over the list
RECURSIVE sum_scores(_, _)
sum_scores(counts, n) ==
    IF n > Len(counts) THEN 0
    ELSE pattern_score(counts[n][1], counts[n][2]) + sum_scores(counts, n + 1)

line_score(b, player, i) == sum_scores(count_consecutive(b, player, i), 1)

evaluate_line(b, player) ==
    line_score(b, player, 1) + line_score(b, player, 2)
  + line_score(b, player, 3) + line_score(b, player, 4)

\* evaluate_position without its last board[row][col] = EMPTY
evaluate_position_no_restore(b, row, col, player) ==
    LET opponent == IF player = BLACK THEN WHITE ELSE BLACK
        b1 == [b EXCEPT ![row][col] = player]
        b3 == [b EXCEPT ![row][col] = opponent]
    IN  [attack |-> evaluate_line(b1, player),
         defend |-> evaluate_line(b3, opponent),
         board |-> b3]

\* attack and defend score, and the board as the four assignments leave it
evaluate_position(b, row, col, player) ==
    LET opponent == IF player = BLACK THEN WHITE ELSE BLACK
        b1 == [b EXCEPT ![row][col] = player]
        b2 == [b1 EXCEPT ![row][col] = EMPTY]
        b3 == [b2 EXCEPT ![row][col] = opponent]
        b4 == [b3 EXCEPT ![row][col] = EMPTY]
    IN  [attack |-> evaluate_line(b1, player),
         defend |-> evaluate_line(b3, opponent),
         board |-> b4]

\* the eight (dr, dc) of the two inner loops
Around == {d : d \in {x \in (-1..1) \X (-1..1) : ~(x[1] = 0 /\ x[2] = 0)}}

\* get_candidate_positions looking at the four orthogonal neighbours only
get_candidate_positions_orthogonal(b) ==
    UNION {{<<rc[1] + d[1], rc[2] + d[2]>> : d \in
                {x \in Around : /\ x[1] = 0 \/ x[2] = 0
                                /\ InRange(rc[1] + x[1], rc[2] + x[2])
                                /\ b[rc[1] + x[1]][rc[2] + x[2]] = EMPTY}} :
           rc \in {y \in Cells : b[y[1]][y[2]] # EMPTY}}

get_candidate_positions(b) ==
    UNION {{<<rc[1] + d[1], rc[2] + d[2]>> : d \in
                {x \in Around : /\ InRange(rc[1] + x[1], rc[2] + x[2])
                                /\ b[rc[1] + x[1]][rc[2] + x[2]] = EMPTY}} :
           rc \in {y \in Cells : b[y[1]][y[2]] # EMPTY}}

Abs(x) == IF x < 0 THEN -x ELSE x
Max(x, y) == IF x >= y THEN x ELSE y

center_bonus(row, col) == Max(0, 10 - (Abs(row - 7) + Abs(col - 7))) * 5

\* one iteration of the loop of get_ai_move, for the candidate rc; st holds
\* the board, best_score and best_moves before it
ai_step(st, rc) ==
    LET ev == evaluate_position(st.board, rc[1], rc[2], WHITE)
        total_score == Max(ev.attack, ev.defend) + center_bonus(rc[1], rc[2])
    IN  IF total_score > st.best_score
        THEN [board |-> ev.board, best_score |-> total_score, best_moves |-> {rc}]
        ELSE IF total_score = st.best_score
        THEN [board |-> ev.board, best_score |-> st.best_score,
              best_moves |-> st.best_moves \cup {rc}]
        ELSE [board |-> ev.board, best_score |-> st.best_score,
              best_moves |-> st.best_moves]

\* the iterations lo..hi of the loop over the list cands, started in st; the
\* state the first half ends in is the state the second half starts in
RECURSIVE ai_scan(_, _, _, _)
ai_scan(cands, lo, hi, st) ==
    IF lo > hi THEN st
    ELSE IF lo = hi THEN ai_step(st, cands[lo])
    ELSE CHOOSE r \in {ai_scan(cands, (lo + hi) \div 2 + 1, hi, s) :
                          s \in {ai_scan(cands, lo, (lo + hi) \div 2, st)}} : TRUE

\* list(candidates): the candidate set as a list (here in scan order)
candidate_list(candidates) == SelectSeq(ScanOrder, LAMBDA rc : rc \in candidates)

\* get_ai_move with a corner as the move of the empty candidate list
get_ai_move_corner(b) ==
    LET candidates == get_candidate_positions(b)
    IN  IF candidates = {}
        THEN [board |-> b, best_moves |-> {<<0, 0>>}]
        ELSE LET r == ai_scan(candidate_list(candidates), 1, Cardinality(candidates),
                              [board |-> b, best_score |-> -1, best_moves |-> {}])
             IN  [board |-> r.board, best_moves |-> r.best_moves]

\* get_ai_move returning the center whatever the candidates are
get_ai_move_center(b) == [board |-> b, best_moves |-> {<<7, 7>>}]

\* best_moves: the cells random.choice may return; board: the board afterwards
get_ai_move(b) ==
    LET candidates == get_candidate_positions(b)
    IN  IF candidates = {}
        THEN [board |-> b, best_moves |-> {<<7, 7>>}]
        ELSE LET r == ai_scan(candidate_list(candidates), 1, Cardinality(candidates),
                              [board |-> b, best_score |-> -1, best_moves |-> {}])
             IN  [board |-> r.board, best_moves |-> r.best_moves]

\* ---------------------------------------------------------------- session
\* game_loop is entered with the mode show_menu has set (choice 1 or 2);
\* its first statement is init_board().
init_board ==
    /\ board' = EmptyBoard
    /\ history' = <<>>
    /\ game_over' = FALSE
    /\ current_player' = BLACK

Init ==
    /\ ai_enabled \in BOOLEAN
    /\ board = EmptyBoard
    /\ history = <<>>
    /\ game_over = FALSE
    /\ current_player = BLACK
    /\ pc = "play"
    /\ msg = MsgNone

AiTurn == ai_enabled /\ current_player = WHITE /\ ~game_over

\* game_loop, the AI branch
AIMove ==
    /\ pc = "play"
    /\ AiTurn
    /\ \E g \in {get_ai_move(board)} :
         \E m \in g.best_moves :
            \E mv \in {make_move(g.board, history, m[1], m[2], WHITE)} :
                  /\ board' = mv.board
                  /\ history' = mv.history
                  /\ game_over' = (IF mv.won THEN TRUE ELSE game_over)
                  /\ current_player' =
                        (IF mv.won THEN current_player ELSE other_player(current_player))
    /\ msg' = MsgAiThinking
    /\ UNCHANGED <<ai_enabled, pc>>

\* the loop reads a command only when the AI branch is not taken
Prompt == pc = "play" /\ ~AiTurn

\* quit, exit, q, or end of input: the loop breaks
Quit ==
    /\ Prompt
    /\ pc' = "quit"
    /\ msg' = MsgNone
    /\ UNCHANGED <<board, history, game_over, current_player, ai_enabled>>

\* the restart command without the reset of current_player
RestartKeepPlayer ==
    /\ Prompt
    /\ board' = EmptyBoard
    /\ history' = <<>>
    /\ game_over' = FALSE
    /\ msg' = MsgNone
    /\ UNCHANGED <<current_player, ai_enabled, pc>>

Restart ==
    /\ Prompt
    /\ init_board
    /\ msg' = MsgNone
    /\ UNCHANGED <<ai_enabled, pc>>

\* the undo command without the two-step case of the AI mode
UndoSingle ==
    /\ Prompt
    /\ IF history # <<>>
       THEN /\ \E u \in {undo_move(board, history)} :
                  board' = u.board /\ history' = u.history
            /\ current_player' = other_player(current_player)
            /\ msg' = MsgUndoOk
       ELSE /\ msg' = MsgUndoNone
            /\ UNCHANGED <<board, history, current_player>>
    /\ UNCHANGED <<game_over, ai_enabled, pc>>

Undo ==
    /\ Prompt
    /\ IF history # <<>>
       THEN /\ IF ai_enabled /\ Len(history) >= 2
               THEN \E u1 \in {undo_move(board, history)} :
                       \E u2 \in {undo_move(u1.board, u1.history)} :
                          board' = u2.board /\ history' = u2.history
               ELSE \E u \in {undo_move(board, history)} :
                       board' = u.board /\ history' = u.history
            /\ current_player' = other_player(current_player)
            /\ msg' = MsgUndoOk
       ELSE /\ msg' = MsgUndoNone
            /\ UNCHANGED <<board, history, current_player>>
    /\ UNCHANGED <<game_over, ai_enabled, pc>>

\* a coordinate command
Place(inp) ==
    /\ Prompt
    /\ \E coord \in {parse_coordinate(inp)} :
           IF coord = NoCoord
           THEN /\ msg' = MsgBadFormat
                /\ UNCHANGED <<board, history, game_over, current_player>>
           ELSE IF ~is_valid_move(board, coord[1], coord[2])
           THEN /\ msg' = MsgOccupied
                /\ UNCHANGED <<board, history, game_over, current_player>>
           ELSE \E mv \in {make_move(board, history, coord[1], coord[2], current_player)} :
                    /\ board' = mv.board
                    /\ history' = mv.history
                    /\ game_over' = (IF mv.won THEN TRUE ELSE game_over)
                    /\ current_player' =
                          (IF mv.won THEN current_player ELSE other_player(current_player))
                    /\ msg' = MsgNone
    /\ UNCHANGED <<ai_enabled, pc>>

\* ---------------------------------------------------------------- free play
\* Cap on len(history) beyond which the free-play human enters no coordinate.
MaxMoves == 6

\* the coordinate commands of the free-play human: H7 (row 6, column 7),
\* H9 (row 8, column 7), E4 (row 3, column 4), P4 (column 15) and E0 (row -1)
HumanInputs == {<<7, 7>>, <<7, 9>>, <<4, 4>>, <<15, 4>>, <<4, 0>>}

HumanPlace == \E inp \in HumanInputs : Len(history) < MaxMoves /\ Place(inp)

Next ==
    \/ AIMove
    \/ HumanPlace
    \/ Undo
    \/ Restart
    \/ Quit

Spec == Init /\ [][Next]_vars

\* ---------------------------------------------------------------- a whole game
\* One game of the AI mode played to a full board, move by move: the odd
\* entries are the human's stones (BLACK), the even entries the cells the
\* AI answered with (each is in best_moves of the position before it).
RecordedGame ==
    <<
       <<7, 3, 1>>, <<7, 4, 2>>, <<3, 4, 1>>, <<7, 5, 2>>, <<3, 5, 1>>, <<7, 6, 2>>,
       <<3, 6, 1>>, <<7, 7, 2>>, <<3, 7, 1>>, <<6, 7, 2>>, <<7, 8, 1>>, <<8, 7, 2>>,
       <<9, 7, 1>>, <<7, 9, 2>>, <<5, 7, 1>>, <<8, 6, 2>>, <<6, 12, 1>>, <<6, 6, 2>>,
       <<5, 6, 1>>, <<8, 8, 2>>, <<8, 5, 1>>, <<6, 8, 2>>, <<6, 5, 1>>, <<10, 7, 2>>,
       <<9, 6, 1>>, <<4, 7, 2>>, <<8, 9, 1>>, <<7, 10, 2>>, <<6, 9, 1>>, <<9, 8, 2>>,
       <<10, 9, 1>>, <<5, 8, 2>>, <<4, 9, 1>>, <<10, 6, 2>>, <<9, 9, 1>>, <<4, 6, 2>>,
       <<5, 9, 1>>, <<11, 7, 2>>, <<9, 5, 1>>, <<8, 10, 2>>, <<9, 11, 1>>, <<6, 10, 2>>,
       <<5, 11, 1>>, <<7, 11, 2>>, <<9, 10, 1>>, <<6, 4, 2>>, <<5, 3, 1>>, <<10, 8, 2>>,
       <<5, 10, 1>>, <<8, 4, 2>>, <<9, 3, 1>>, <<4, 8, 2>>, <<4, 5, 1>>, <<5, 5, 2>>,
       <<4, 4, 1>>, <<2, 7, 2>>, <<10, 5, 1>>, <<7, 2, 2>>, <<7, 12, 1>>, <<8, 11, 2>>,
       <<5, 4, 1>>, <<6, 3, 2>>, <<11, 8, 1>>, <<8, 3, 2>>, <<14, 5, 1>>, <<12, 7, 2>>,
       <<13, 7, 1>>, <<6, 11, 2>>, <<11, 3, 1>>, <<11, 6, 2>>, <<12, 5, 1>>, <<9, 4, 2>>,
       <<10, 4, 1>>, <<3, 8, 2>>, <<2, 8, 1>>, <<7, 13, 2>>, <<6, 1, 1>>, <<10, 10, 2>>,
       <<1, 3, 1>>, <<4, 10, 2>>, <<14, 12, 1>>, <<6, 0, 2>>, <<0, 8, 1>>, <<1, 8, 2>>,
       <<8, 1, 1>>, <<0, 9, 2>>, <<2, 1, 1>>, <<7, 1, 2>>, <<13, 2, 1>>, <<7, 0, 2>>,
       <<1, 11, 1>>, <<8, 2, 2>>, <<0, 5, 1>>, <<0, 7, 2>>, <<0, 0, 1>>, <<1, 7, 2>>,
       <<13, 14, 1>>, <<2, 9, 2>>, <<3, 10, 1>>, <<1, 9, 2>>, <<1, 10, 1>>, <<3, 9, 2>>,
       <<1, 6, 1>>, <<2, 6, 2>>, <<10, 0, 1>>, <<11, 9, 2>>, <<4, 0, 1>>, <<0, 6, 2>>,
       <<13, 10, 1>>, <<6, 14, 2>>, <<10, 13, 1>>, <<8, 12, 2>>, <<8, 13, 1>>, <<1, 5, 2>>,
       <<9, 13, 1>>, <<2, 4, 2>>, <<2, 5, 1>>, <<3, 3, 2>>, <<4, 2, 1>>, <<0, 4, 2>>,
       <<12, 12, 1>>, <<1, 4, 2>>, <<0, 13, 1>>, <<11, 5, 2>>, <<11, 4, 1>>, <<12, 6, 2>>,
       <<13, 6, 1>>, <<6, 2, 2>>, <<9, 2, 1>>, <<12, 8, 2>>, <<12, 9, 1>>, <<14, 7, 2>>,
       <<5, 2, 1>>, <<4, 11, 2>>, <<13, 9, 1>>, <<10, 3, 2>>, <<13, 5, 1>>, <<10, 11, 2>>,
       <<2, 13, 1>>, <<4, 3, 2>>, <<14, 0, 1>>, <<11, 10, 2>>, <<5, 14, 1>>, <<7, 14, 2>>,
       <<12, 0, 1>>, <<6, 13, 2>>, <<5, 12, 1>>, <<9, 12, 2>>, <<12, 13, 1>>, <<13, 8, 2>>,
       <<14, 9, 1>>, <<10, 2, 2>>, <<8, 0, 1>>, <<0, 3, 2>>, <<14, 8, 1>>, <<14, 6, 2>>,
       <<4, 13, 1>>, <<0, 10, 2>>, <<0, 1, 1>>, <<9, 1, 2>>, <<1, 2, 1>>, <<2, 3, 2>>,
       <<11, 11, 1>>, <<9, 0, 2>>, <<14, 13, 1>>, <<10, 1, 2>>, <<14, 4, 1>>, <<11, 2, 2>>,
       <<12, 1, 1>>, <<12, 3, 2>>, <<13, 4, 1>>, <<5, 1, 2>>, <<3, 11, 1>>, <<5, 0, 2>>,
       <<2, 12, 1>>, <<5, 13, 2>>, <<0, 12, 1>>, <<4, 14, 2>>, <<11, 14, 1>>, <<2, 10, 2>>,
       <<1, 14, 1>>, <<8, 14, 2>>, <<9, 14, 1>>, <<12, 10, 2>>, <<13, 11, 1>>, <<10, 12, 2>>,
       <<11, 12, 1>>, <<12, 11, 2>>, <<2, 0, 1>>, <<12, 4, 2>>, <<14, 1, 1>>, <<4, 12, 2>>,
       <<3, 14, 1>>, <<3, 12, 2>>, <<4, 1, 1>>, <<2, 11, 2>>, <<3, 2, 1>>, <<1, 13, 2>>,
       <<11, 1, 1>>, <<0, 14, 2>>, <<1, 12, 1>>, <<3, 0, 2>>, <<14, 14, 1>>, <<3, 1, 2>>,
       <<14, 2, 1>>, <<14, 3, 2>>, <<10, 14, 1>>, <<13, 0, 2>>, <<1, 1, 1>>, <<13, 1, 2>>,
       <<11, 0, 1>>, <<14, 11, 2>>, <<0, 2, 1>>, <<2, 2, 2>>, <<3, 13, 1>>, <<1, 0, 2>>,
       <<14, 10, 1>>, <<11, 13, 2>>, <<2, 14, 1>>, <<13, 13, 2>>, <<13, 12, 1>>, <<12, 14, 2>>,
       <<12, 2, 1>>, <<13, 3, 2>>, <<0, 11, 1>>
    >>

\* the human of the recorded game enters its next stone as long as the game
\* on the board is the recorded one, and otherwise nothing
ScriptInputs ==
    IF /\ Len(history) < Len(RecordedGame)
       /\ history = SubSeq(RecordedGame, 1, Len(history))
    THEN LET e == RecordedGame[Len(history) + 1]
         IN  {<<e[2], e[1] + 1>>}
    ELSE {}

ScriptPlace == \E inp \in ScriptInputs : Place(inp)

NextGame ==
    \/ AIMove
    \/ ScriptPlace

\* the recorded game is played against the AI (menu choice 1)
InitGame == Init /\ ai_enabled = TRUE

SpecGame == InitGame /\ [][NextGame]_vars

\* ---------------------------------------------------------------- a short match
\* A human who enters coordinates from a fixed list, the command at position
\* len(history) + 1, and who may also restart and quit at any prompt:
\* D8 E8 E4 F8 F4 G8 G4 H8 H4 I8 I4 D4, i.e. the cells (7,3) (7,4) (3,4)
\* (7,5) (3,5) (7,6) (3,6) (7,7) (3,7) (7,8) (3,8) (3,3).  Rows 7 and 3 each
\* fill to five in a line.
MatchScript ==
    << <<3, 8>>, <<4, 8>>, <<4, 4>>, <<5, 8>>, <<5, 4>>, <<6, 8>>,
       <<6, 4>>, <<7, 8>>, <<7, 4>>, <<8, 8>>, <<8, 4>>, <<3, 4>> >>

MatchInputs ==
    IF Len(history) < Len(MatchScript)
    THEN {MatchScript[Len(history) + 1]}
    ELSE {}

MatchPlace == \E inp \in MatchInputs : Place(inp)

\* this human takes moves back only once a game is decided
MatchUndo == game_over /\ Undo

NextMatch ==
    \/ AIMove
    \/ MatchPlace
    \/ MatchUndo
    \/ Restart
    \/ Quit

SpecMatch == Init /\ [][NextMatch]_vars

\* ---------------------------------------------------------------- properties
Last(h) == h[Len(h)]
Front(h) == SubSeq(h, 1, Len(h) - 1)

\* the board a fresh board becomes when the first n moves of h are made in
\* order: each cell holds the side of the last of these moves that names it
Replay(h, n) ==
    [r \in Idx |-> [c \in Idx |->
        LET on == {i \in 1..n : h[i][1] = r /\ h[i][2] = c}
        IN  IF on = {} THEN EMPTY
            ELSE h[CHOOSE i \in on : \A j \in on : j <= i][3]]]

\* n successive calls of undo_move, n >= 1: the result of the last one
RECURSIVE UndoCalls(_, _, _)
UndoCalls(b, h, n) ==
    IF n = 1 THEN undo_move(b, h)
    ELSE CHOOSE r \in {UndoCalls(u.board, u.history, n - n \div 2) :
                          u \in {UndoCalls(b, h, n \div 2)}} : TRUE

\* the result of the call of undo_move that follows n calls of it
UndoTimes(b, h, n) ==
    IF n = 0 THEN undo_move(b, h)
    ELSE CHOOSE r \in {undo_move(u.board, u.history) : u \in {UndoCalls(b, h, n)}} : TRUE

\* the length of the maximal contiguous run of side's stones through
\* (row, col) on axis d, the stone at (row, col) included
RunLength(b, row, col, side, d) ==
    Cardinality({k \in (1 - BOARD_SIZE)..(BOARD_SIZE - 1) :
        \A j \in (IF k < 0 THEN k ELSE 0)..(IF k < 0 THEN 0 ELSE k) :
            /\ InRange(row + j * d[1], col + j * d[2])
            /\ b[row + j * d[1]][col + j * d[2]] = side})

\* the Empty candidate cells where a stone of side completes five or more
WinningCells(b, side) ==
    {m \in get_candidate_positions(b) :
        \E i \in 1..4 :
            RunLength([b EXCEPT ![m[1]][m[2]] = side], m[1], m[2], side,
                      directions[i]) >= 5}

\* the pairs of end cells of the open fours of side: four contiguous stones
\* on one axis with both end cells in range and Empty
OpenFourEnds(b, side) ==
    {<< <<rc[1] - directions[i][1], rc[2] - directions[i][2]>>,
        <<rc[1] + 4 * directions[i][1], rc[2] + 4 * directions[i][2]>> >> :
     <<rc, i>> \in
       {x \in Cells \X (1..4) :
          LET r == x[1][1]
              c == x[1][2]
              dr == directions[x[2]][1]
              dc == directions[x[2]][2]
          IN  /\ InRange(r - dr, c - dc) /\ b[r - dr][c - dc] = EMPTY
              /\ InRange(r + 4 * dr, c + 4 * dc) /\ b[r + 4 * dr][c + 4 * dc] = EMPTY
              /\ \A j \in 0..3 : b[r + j * dr][c + j * dc] = side}}

FullBoard(b) == \A rc \in Cells : b[rc[1]][rc[2]] # EMPTY

\* C1: whenever it is the AI's turn and some Empty candidate cell completes
\* five or more WHITE stones, every cell get_ai_move may return completes five.
C1_AiTakesWinningCell ==
    (pc = "play" /\ AiTurn /\ WinningCells(board, WHITE) # {})
        => get_ai_move(board).best_moves \subseteq WinningCells(board, WHITE)

\* C2: whenever it is the AI's turn, BLACK has an open four and WHITE has no
\* winning cell, every cell get_ai_move may return is an end cell of that four.
C2_AiBlocksOpenFour ==
    (pc = "play" /\ AiTurn /\ WinningCells(board, WHITE) = {})
        => \A ends \in OpenFourEnds(board, BLACK) :
              get_ai_move(board).best_moves \subseteq {ends[1], ends[2]}

\* C3: for the stone placed last, the count check_win reaches on each axis is
\* the length of the maximal contiguous run through it, and check_win is true
\* exactly when that length is 5 or more on some axis.
C3_CheckWinExact ==
    (pc = "play" /\ history # <<>>) =>
        LET e == Last(history)
        IN  /\ \A i \in 1..4 :
                  win_count(board, e[1], e[2], e[3], directions[i])
                    = RunLength(board, e[1], e[2], e[3], directions[i])
            /\ check_win(board, e[1], e[2], e[3])
                 <=> \E i \in 1..4 :
                        RunLength(board, e[1], e[2], e[3], directions[i]) >= 5

\* a stone has just completed a run of five or more and check_win saw it
C3_Witness ==
    /\ pc = "play" /\ history # <<>> /\ game_over
    /\ \E i \in 1..4 :
          RunLength(board, Last(history)[1], Last(history)[2], Last(history)[3],
                    directions[i]) >= 5

\* C4: after the N moves of history, one undo_move leaves the board as the
\* first N-1 moves made it, N undo_moves leave it all Empty, and the
\* (N+1)-th returns False and changes nothing.
C4_UndoInvertsMoves ==
    pc = "play" =>
        /\ history # <<>> =>
              /\ undo_move(board, history).ret
              /\ undo_move(board, history).board = Replay(history, Len(history) - 1)
              /\ undo_move(board, history).history = Front(history)
        /\ LET z == UndoTimes(board, history, Len(history))
           IN  /\ z.board = EmptyBoard
               /\ z.history = <<>>
               /\ z.ret = FALSE

\* C5: evaluate_position on an Empty cell (here: the cells the human's
\* commands name), for either side, leaves the board as it was before the
\* call, and so does get_ai_move whenever the game loop calls it.
C5_SelectionReadOnly ==
    pc = "play" =>
        /\ \A inp \in HumanInputs, p \in {BLACK, WHITE} :
              (InRange(inp[2] - 1, inp[1]) /\ board[inp[2] - 1][inp[1]] = EMPTY)
                 => evaluate_position(board, inp[2] - 1, inp[1], p).board = board
        /\ AiTurn => get_ai_move(board).board = board

\* the AI has just chosen among candidates it scored
C5_Witness ==
    /\ pc = "play" /\ msg = MsgAiThinking /\ Len(history) >= 2
    /\ board[Last(history)[1]][Last(history)[2]] = WHITE
    /\ Last(history) # <<7, 7, WHITE>>

\* C6: a turn of the AI on a full board places no stone: board and history
\* stay as they are.
C6_FullBoardNoStone ==
    [][(pc = "play" /\ AiTurn /\ FullBoard(board))
          => (board' = board /\ history' = history)]_vars

C8_BoardIsHistory ==
    pc = "play" =>
        /\ board = Replay(history, Len(history))
        /\ \A i, j \in 1..Len(history) :
              (history[i][1] = history[j][1] /\ history[i][2] = history[j][2]) => i = j
        /\ history # <<>> =>
              board[Last(history)[1]][Last(history)[2]] = Last(history)[3]

\* the cell a coordinate command names, before any check
NamedCell(inp) == <<inp[2] - 1, inp[1]>>

Rejected(inp) ==
    \/ ~InRange(NamedCell(inp)[1], NamedCell(inp)[2])
    \/ board[NamedCell(inp)[1]][NamedCell(inp)[2]] # EMPTY

\* C9: a coordinate command naming an out-of-range or occupied cell changes
\* none of board, history, current_player and game_over, and is_valid_move
\* is true exactly for the in-range Empty cells.
C9_InvalidPlaceRejected ==
    [][/\ \A r, c \in -1..BOARD_SIZE :
             is_valid_move(board, r, c) <=> (InRange(r, c) /\ board[r][c] = EMPTY)
       /\ \A inp \in HumanInputs :
             (Rejected(inp) /\ Place(inp))
                => UNCHANGED <<board, history, current_player, game_over>>]_vars

\* commands naming an occupied cell and an out-of-range cell were rejected
C9_Witness ==
    /\ pc = "play" /\ msg = MsgOccupied
    /\ \E inp \in HumanInputs : InRange(NamedCell(inp)[1], NamedCell(inp)[2])
                                /\ Rejected(inp)

\* the board with the cells of the last n entries of h emptied
RECURSIVE Emptied(_, _, _)
Emptied(b, h, n) ==
    IF n = 0 THEN b
    ELSE Emptied([b EXCEPT ![Last(h)[1]][Last(h)[2]] = EMPTY], Front(h), n - 1)

\* C10: an undo command removes the last two moves in AI mode when history
\* holds at least two, one move when it holds one, one move in two-player
\* mode, and with empty history leaves board, history and current_player.
C10_UndoCount ==
    [][Undo =>
         IF history = <<>>
         THEN UNCHANGED <<board, history, current_player>>
         ELSE LET n == IF ai_enabled /\ Len(history) >= 2 THEN 2 ELSE 1
              IN  /\ history' = SubSeq(history, 1, Len(history) - n)
                  /\ board' = Emptied(board, history, n)]_vars

\* in AI mode the prompt is reached with exactly one move to undo
C10_Witness == pc = "play" /\ ai_enabled /\ ~AiTurn /\ Len(history) = 1

\* the number of contiguous stones of side met from (row, col) on, one step
\* (dr, dc) at a time, (row, col) itself not counted
Reach(b, row, col, side, dr, dc) ==
    Cardinality({k \in 1..(BOARD_SIZE - 1) :
        \A j \in 1..k : /\ InRange(row + j * dr, col + j * dc)
                        /\ b[row + j * dr][col + j * dc] = side})

IsOpen(b, r, c) == IF InRange(r, c) /\ b[r][c] = EMPTY THEN 1 ELSE 0

\* the table of run values as the claims state it
TableValue(count, open) ==
    CASE count >= 5 -> 100000
      [] count = 4 -> (IF open = 2 THEN 10000 ELSE 1000)
      [] count = 3 -> (IF open = 2 THEN 1000 ELSE 100)
      [] count = 2 -> (IF open = 2 THEN 100 ELSE 10)
      [] OTHER -> 0

\* the table value of the run through the stone at (row, col) on axis d
RunValue(b, row, col, d) ==
    LET side == b[row][col]
        f == Reach(b, row, col, side, d[1], d[2])
        k == Reach(b, row, col, side, -d[1], -d[2])
    IN  TableValue(f + k + 1,
                   IsOpen(b, row + (f + 1) * d[1], col + (f + 1) * d[2])
                 + IsOpen(b, row - (k + 1) * d[1], col - (k + 1) * d[2]))

\* the score of a hypothetical stone of side at the Empty cell (row, col)
PositionScore(b, row, col, side) ==
    LET b1 == [b EXCEPT ![row][col] = side]
    IN  RunValue(b1, row, col, directions[1]) + RunValue(b1, row, col, directions[2])
      + RunValue(b1, row, col, directions[3]) + RunValue(b1, row, col, directions[4])

\* C11: for an Empty cell (here: the cells the human's commands name) and
\* each side, the attack score of evaluate_position is the sum over the four
\* axes of the table value of the run through the hypothetical stone, and the
\* defend score is that sum for the opponent's stone.
C11_ScoreTable ==
    pc = "play" =>
        \A inp \in HumanInputs, s \in {BLACK, WHITE} :
            (InRange(NamedCell(inp)[1], NamedCell(inp)[2])
               /\ board[NamedCell(inp)[1]][NamedCell(inp)[2]] = EMPTY)
            => LET r == NamedCell(inp)[1]
                   c == NamedCell(inp)[2]
                   ev == evaluate_position(board, r, c, s)
               IN  /\ ev.attack = PositionScore(board, r, c, s)
                   /\ ev.defend = PositionScore(board, r, c, other_player(s))

\* the Chebyshev distance of two cells
Chebyshev(x, y) == Max(Abs(x[1] - y[1]), Abs(x[2] - y[2]))

\* the in-range Empty cells at Chebyshev distance 1 of an occupied cell
EmptyNeighbours(b) ==
    {x \in Cells : /\ b[x[1]][x[2]] = EMPTY
                   /\ \E y \in ((x[1] - 1)..(x[1] + 1)) \X ((x[2] - 1)..(x[2] + 1)) :
                         /\ InRange(y[1], y[2])
                         /\ b[y[1]][y[2]] # EMPTY
                         /\ Chebyshev(x, y) = 1}

\* C12: on a board with at least one stone, get_candidate_positions is
\* exactly the set of in-range Empty cells at Chebyshev distance 1 of an
\* occupied cell.
C12_CandidatesAreEmptyNeighbours ==
    (pc = "play" /\ board # EmptyBoard) =>
        get_candidate_positions(board) = EmptyNeighbours(board)

\* stones lie in a corner and on the edges, and candidates remain
C12_Witness ==
    /\ pc = "play"
    /\ board[0][0] # EMPTY /\ board[14][7] # EMPTY /\ board[7][14] # EMPTY
    /\ get_candidate_positions(board) # {}

\* the cells where a maximal contiguous run of two or more stones of side
\* begins on axis i
RunStarts(b, side, i) ==
    {x \in Cells :
        LET dr == directions[i][1]
            dc == directions[i][2]
        IN  /\ b[x[1]][x[2]] = side
            /\ ~(InRange(x[1] - dr, x[2] - dc) /\ b[x[1] - dr][x[2] - dc] = side)
            /\ InRange(x[1] + dr, x[2] + dc) /\ b[x[1] + dr][x[2] + dc] = side}

\* length and open ends of the run beginning at x
RunShape(b, side, i, x) ==
    LET dr == directions[i][1]
        dc == directions[i][2]
        n == 1 + Reach(b, x[1], x[2], side, dr, dc)
    IN  <<n, IsOpen(b, x[1] - dr, x[2] - dc) + IsOpen(b, x[1] + n * dr, x[2] + n * dc)>>

\* C16: on each axis and for each side, count_consecutive lists every
\* maximal contiguous run of two or more stones exactly once, with its length
\* and its number of open ends.
C16_EveryRunReported ==
    pc = "play" =>
        \A side \in {BLACK, WHITE}, i \in 1..4 :
            \A v \in (2..BOARD_SIZE) \X (0..2) :
                Cardinality({n \in 1..Len(count_consecutive(board, side, i)) :
                                count_consecutive(board, side, i)[n] = v})
                  = Cardinality({x \in RunStarts(board, side, i) :
                                    RunShape(board, side, i, x) = v})

C14_UndoRevertsTurn ==
    [][(Undo /\ history # <<>>) =>
          /\ current_player' = history[Len(history') + 1][3]
          /\ (ai_enabled /\ Len(history') = Len(history) - 2) =>
                (current_player' = BLACK /\ ~AiTurn')]_vars

\* the candidates with their final score built from attack + defend
SumRanking(b) ==
    {<<m, evaluate_position(b, m[1], m[2], WHITE).attack
          + evaluate_position(b, m[1], m[2], WHITE).defend
          + center_bonus(m[1], m[2])>> : m \in get_candidate_positions(b)}

\* the cells of maximal score in a set of <<cell, score>>
TopOf(ranking) ==
    {p[1] : p \in {q \in ranking : \A r \in ranking : r[2] <= q[2]}}

\* C15: whenever the AI is to move and there are candidates, every cell
\* get_ai_move may return has the maximal final score attack + defend +
\* center bonus over all candidates.
C15_SumRanking ==
    (pc = "play" /\ AiTurn /\ get_candidate_positions(board) # {}) =>
        \E ranking \in {SumRanking(board)} :
            get_ai_move(board).best_moves \subseteq TopOf(ranking)

\* C17: the sides of the history entries alternate BLACK, WHITE, BLACK, ...
\* and the board holds as many BLACK stones as WHITE stones, or one more.
C17_TurnsAlternate ==
    pc = "play" =>
        /\ \A i \in 1..Len(history) :
              history[i][3] = (IF i % 2 = 1 THEN BLACK ELSE WHITE)
        /\ Cardinality({x \in Cells : board[x[1]][x[2]] = BLACK})
             - Cardinality({x \in Cells : board[x[1]][x[2]] = WHITE}) \in {0, 1}

\* C18: while game_over is True, no step other than a restart makes the
\* history longer or an Empty cell occupied.
C18_NoStoneAfterGameOver ==
    [][(pc = "play" /\ game_over) =>
          /\ Len(history') <= Len(history)
          /\ \A x \in Cells :
                board[x[1]][x[2]] = EMPTY => board'[x[1]][x[2]] = EMPTY]_vars

\* C19: game_over is True only if the last move of history is a stone of
\* current_player lying in a line of five or more of its stones.
C19_GameOverMeansFive ==
    (pc = "play" /\ game_over) =>
        /\ history # <<>>
        /\ Last(history)[3] = current_player
        /\ board[Last(history)[1]][Last(history)[2]] = current_player
        /\ \E i \in 1..4 :
              RunLength(board, Last(history)[1], Last(history)[2],
                        current_player, directions[i]) >= 5

\* C20: on a board with a stone and an Empty cell there are candidates, the
\* cells get_ai_move may return are Empty cells at Chebyshev distance 1 of an
\* occupied cell, and the stone the AI's turn commits lies on such a cell.
C20_AiMoveOnEmptyNeighbour ==
    [][(pc = "play" /\ board # EmptyBoard /\ ~FullBoard(board)) =>
          \E near \in {EmptyNeighbours(board)} :
             /\ get_candidate_positions(board) # {}
             /\ AiTurn =>
                   /\ get_ai_move(board).best_moves \subseteq near
                   /\ Len(history') = Len(history) + 1
                   /\ Last(history')[3] = WHITE
                   /\ <<Last(history')[1], Last(history')[2]>> \in near
                   /\ board[Last(history')[1]][Last(history')[2]] = EMPTY]_vars

\* the AI has moved with two Empty cells left on the board
C20_Witness ==
    /\ pc = "play" /\ msg = MsgAiThinking
    /\ Cardinality({x \in Cells : board[x[1]][x[2]] = EMPTY}) = 1
    /\ Last(history)[3] = WHITE

====
